---- MODULE Spec2Model ----
(***************************************************************************)
(* Model of jsp.py: the encoding of a job-shop scheduling problem into     *)
(* time-indexed binary variables and three constraint families             *)
(* (start-once, machine capacity, precedence).                             *)
(*                                                                         *)
(* Job identifiers are strings in the program; here they are the naturals  *)
(* 1..n, standing for the identifiers in their lexicographic order, so     *)
(* that the program's string comparison job_i < job_k is integer <.        *)
(* Machines are naturals as well (only equality is used on them).          *)
(* An operation is the tuple <<machine, processing_time>>: Python's op[0]  *)
(* is op[1] here and Python's op[1] is op[2].                               *)
(* A variable name "x_{job}_o{op_num}_t{time}" is the triple               *)
(* <<job, op_num, time>> that the format string is filled with.            *)
(***************************************************************************)
EXTENDS Integers, Sequences, FiniteSets, TLC

\* ---- bounds of the explored inputs ----
NumJobs == 2
NumMachines == 2
MaxOps == 2
MaxDur == 2
MaxNeg == 1
MaxHorizon == 3
MaxCheckHorizon == 3
MaxLength == 6

VARIABLES
    pc,                      \* position in the construction / test
    args,                    \* arguments of the constructor call
    job_dict,                \* self.job_dict
    max_time,                \* self.max_time
    remove_impossible_times, \* self.remove_impossible_times
    time_vars,               \* self.time_vars
    machine_cap_pairs,       \* value returned by get_machine_cap_pairs
    precedence_pairs,        \* value returned by get_precedence_pairs
    csp,                     \* DBCJSP.csp: the constraints added
    schedule,                \* the assignment handed to csp.check
    check_result,            \* what csp.check returned
    length,                  \* argument of get_one_hot_configs
    configs,                 \* value returned by get_one_hot_configs
    config,                  \* argument tuple of start_once
    start_once_result        \* value returned by start_once

vars == <<pc, args, job_dict, max_time, remove_impossible_times, time_vars,
          machine_cap_pairs, precedence_pairs, csp, schedule, check_result,
          length, configs, config, start_once_result>>

jspVars == <<args, job_dict, max_time, remove_impossible_times, time_vars,
             machine_cap_pairs, precedence_pairs, csp, schedule, check_result>>

oneHotVars == <<length, configs, config, start_once_result>>

\* ---- generic helpers ----

\* The elements of a sequence.
Range(s) == {s[n] : n \in DOMAIN s}

\* Python's sum() of a tuple of integers.
RECURSIVE Sum(_)
Sum(s) == IF s = <<>> THEN 0 ELSE Head(s) + Sum(Tail(s))

\* Concatenation of a sequence of sequences (nested comprehension order).
RECURSIVE Flatten(_)
Flatten(ss) == IF ss = <<>> THEN <<>> ELSE Head(ss) \o Flatten(Tail(ss))

\* itertools.product(s1, s2) as a sequence of pairs, s1 varying slowest.
Product(s1, s2) ==
    [n \in 1..(Len(s1) * Len(s2)) |->
        <<s1[((n - 1) \div Len(s2)) + 1], s2[((n - 1) % Len(s2)) + 1]>>]

Machine(op) == op[1]
Dur(op) == op[2]

\* [op[1] for op in ops]
Durations(ops) == [n \in DOMAIN ops |-> Dur(ops[n])]

\* ---- JSP.calc_max_time ----
calc_max_time(jd) == Sum([j \in DOMAIN jd |-> Sum(Durations(jd[j]))])

\* ---- JSP.get_time_vars ----

\* [t + 1 for t in range(start, end)]
TimesList(start, end) == [n \in 1..(end - start) |-> (start + (n - 1)) + 1]

\* forward_space before the first operation of a job
InitForwardSpaceNoLastSlot(ops, flag) == IF flag THEN Sum(Durations(ops)) ELSE 0

InitForwardSpace(ops, flag) == IF flag THEN Sum(Durations(ops)) - 1 ELSE 0

\* forward_space / back_space after an operation has been processed
NextForwardSpace(forward_space, op, flag) ==
    IF flag THEN forward_space - Dur(op) ELSE forward_space

NextBackSpaceNever(back_space, op, flag) == back_space

NextBackSpace(back_space, op, flag) ==
    IF flag THEN back_space + Dur(op) ELSE back_space

\* the loop over one job's operations, from operation n on
RECURSIVE JobTimes(_, _, _, _, _, _)
JobTimes(ops, n, forward_space, back_space, mt, flag) ==
    IF n > Len(ops) THEN <<>>
    ELSE LET start == back_space
             end == mt - forward_space
         IN  <<TimesList(start, end)>> \o
             JobTimes(ops, n + 1,
                      NextForwardSpace(forward_space, ops[n], flag),
                      NextBackSpace(back_space, ops[n], flag),
                      mt, flag)

get_time_vars(jd, mt, flag) ==
    [job \in DOMAIN jd |->
        JobTimes(jd[job], 1, InitForwardSpace(jd[job], flag), 0, mt, flag)]

\* ---- inputs ----
Machines == 1..NumMachines
None == <<>>

Ops(durs) == Machines \X durs

OpLists(durs, minOps) ==
    UNION {[1..n -> Ops(durs)] : n \in minOps..MaxOps}

JobDicts(durs, minOps) ==
    UNION {[1..n -> OpLists(durs, minOps)] : n \in 1..NumJobs}

\* the instance of test_simple_jsp
TestJobs ==
    << << <<1, 2>>, <<2, 1>>, <<3, 1>> >>,
       << <<3, 2>>, <<1, 1>>, <<2, 2>> >>,
       << <<2, 1>>, <<1, 1>>, <<3, 2>> >> >>

TestArgs == [job_dict |-> TestJobs, max_time |-> <<7>>,
             remove_impossible_times |-> TRUE]

EmptyCsp == [start_once |-> <<>>, one_at_a_time |-> {},
             enforce_precedence |-> <<>>]

InitFields ==
    /\ job_dict = <<>>
    /\ max_time = 0
    /\ remove_impossible_times = TRUE
    /\ time_vars = <<>>
    /\ machine_cap_pairs = <<>>
    /\ precedence_pairs = <<>>
    /\ csp = EmptyCsp
    /\ schedule = <<>>
    /\ check_result = FALSE
    /\ length = 0
    /\ configs = <<>>
    /\ config = <<>>
    /\ start_once_result = FALSE

\* a constructor call with any job spec of the bounded shape, or the test's
Init ==
    /\ pc = "new"
    /\ \/ args \in [job_dict : JobDicts((0 - MaxNeg)..MaxDur, 0),
                    max_time : {None} \cup {<<h>> : h \in 0..MaxHorizon},
                    remove_impossible_times : BOOLEAN]
       \/ args = TestArgs
    /\ InitFields

\* ---- JSP.__init__ ----
JSP__init__ ==
    /\ pc = "new"
    /\ job_dict' = args.job_dict
    /\ max_time' = IF args.max_time # None THEN args.max_time[1]
                   ELSE calc_max_time(args.job_dict)
    /\ remove_impossible_times' = args.remove_impossible_times
    /\ time_vars' = get_time_vars(job_dict', max_time', remove_impossible_times')
    /\ pc' = "constructed"
    /\ UNCHANGED <<args, machine_cap_pairs, precedence_pairs, csp, schedule,
                   check_result>>
    /\ UNCHANGED oneHotVars

\* ---- JSP.get_op_start_times ----
get_op_start_times(tv) ==
    Flatten([job \in DOMAIN tv |->
                [n \in DOMAIN tv[job] |-> <<job, n, tv[job][n]>>]])

\* ---- JSP.get_machine_cap_pairs ----

\* the set of machines used by any operation
MachinesOf(jd) ==
    UNION {{Machine(jd[job][n]) : n \in DOMAIN jd[job]} : job \in DOMAIN jd}

\* ops_on_m: the operations {"job": job, "op_idx": op_idx} on a machine
ops_on_m(jd, machine) ==
    UNION {{[job |-> job, op_idx |-> n - 1] :
               n \in {x \in DOMAIN jd[job] : Machine(jd[job][x]) = machine}} :
           job \in DOMAIN jd}

\* self.time_vars[i["job"]][i["op_idx"]]
TimesOf(tv, i) == tv[i.job][i.op_idx + 1]

\* self.job_dict[i["job"]][i["op_idx"]][1]
ProcTime(jd, i) == Dur(jd[i.job][i.op_idx + 1])

\* the filter of a_m
OverlapCondSameOp(jd, i, t, k, tprime) ==
    /\ t < tprime
    /\ (tprime - t) < ProcTime(jd, i)
    /\ (tprime - t) > 0

OverlapCondOffByOne(jd, i, t, k, tprime) ==
    /\ i # k
    /\ t < tprime
    /\ (tprime - t) < ProcTime(jd, i) - 1
    /\ (tprime - t) > 0

OverlapCond(jd, i, t, k, tprime) ==
    /\ i # k
    /\ t < tprime
    /\ (tprime - t) < ProcTime(jd, i)
    /\ (tprime - t) > 0

\* the filter of b_m
EqualStartCondBothOrders(jd, i, t, k, tprime) ==
    /\ i # k
    /\ t = tprime
    /\ ProcTime(jd, i) > 0
    /\ ProcTime(jd, k) > 0

EqualStartCond(jd, i, t, k, tprime) ==
    /\ \/ i.job < k.job
       \/ (i.job = k.job /\ i.op_idx < k.op_idx)
    /\ t = tprime
    /\ ProcTime(jd, i) > 0
    /\ ProcTime(jd, k) > 0

\* all (i, t, k, tprime) over ops x ops and the two windows
Candidates(tv, ops) ==
    UNION {UNION {{<<i, x[1], k, x[2]>> :
                      x \in Range(TimesOf(tv, i)) \X Range(TimesOf(tv, k))} :
                  k \in ops} :
           i \in ops}

a_m(jd, tv, machine) ==
    {q \in Candidates(tv, ops_on_m(jd, machine)) :
        OverlapCond(jd, q[1], q[2], q[3], q[4])}

b_m(jd, tv, machine) ==
    {q \in Candidates(tv, ops_on_m(jd, machine)) :
        EqualStartCond(jd, q[1], q[2], q[3], q[4])}

\* ((i["job"], i["op_idx"] + 1, t), (k["job"], k["op_idx"] + 1, tprime))
KeyPair(q) == << <<q[1].job, q[1].op_idx + 1, q[2]>>,
                 <<q[3].job, q[3].op_idx + 1, q[4]>> >>

get_machine_cap_pairs(jd, tv) ==
    [machine \in MachinesOf(jd) |->
        {KeyPair(q) : q \in a_m(jd, tv, machine) \cup b_m(jd, tv, machine)}]

\* ---- JSP.get_precedence_pairs ----

\* the filter of the precedence list
PrecedenceCondInclusive(t, p, tprime) == (t + p) >= tprime

PrecedenceCond(t, p, tprime) == (t + p) > tprime

\* the tuples of one non-terminal operation i (0-based), in generation order
PrecedenceOfOp(jd, tv, job, i) ==
    LET prod == Product(tv[job][i + 1], tv[job][i + 2])
        all == [n \in DOMAIN prod |-> <<i, prod[n][1], i + 1, prod[n][2]>>]
    IN  SelectSeq(all, LAMBDA q : PrecedenceCond(q[2], Dur(jd[job][i + 1]), q[4]))

non_terminal_ops(ops) == [n \in 1..(Len(ops) - 1) |-> n - 1]

get_precedence_pairs(jd, tv) ==
    [job \in DOMAIN jd |->
        Flatten([n \in DOMAIN non_terminal_ops(jd[job]) |->
                    PrecedenceOfOp(jd, tv, job, non_terminal_ops(jd[job])[n])])]

\* ---- the constraint functions ----
start_once(c) == Sum(c) = 1

get_one_hot_configsFromSecond(len) ==
    [i \in 1..(len - 1) |-> [j \in 1..len |-> IF j = i + 1 THEN 1 ELSE 0]]

get_one_hot_configs(len) ==
    [i \in 1..len |-> [j \in 1..len |-> IF j = i THEN 1 ELSE 0]]

one_at_a_time(x_i_t, x_k_tprime) == (x_i_t * x_k_tprime) = 0

enforce_precedence(x_i_t, x_k_tprime) == (x_i_t * x_k_tprime) = 0

\* ---- DBCJSP.add_*_constraints ----
add_start_once_constraints(start_times) ==
    [n \in DOMAIN start_times |->
        LET op_times == start_times[n][3]
        IN  [configurations |-> Range(get_one_hot_configs(Len(op_times))),
             variables |-> [k \in DOMAIN op_times |->
                               <<start_times[n][1], start_times[n][2], op_times[k]>>]]]

add_machine_cap_constraints(machines) ==
    UNION {machines[m] : m \in DOMAIN machines}

add_precedence_constraints(pairs) ==
    Flatten([job \in DOMAIN pairs |->
                [n \in DOMAIN pairs[job] |->
                    << <<job, pairs[job][n][1] + 1, pairs[job][n][2]>>,
                       <<job, pairs[job][n][3] + 1, pairs[job][n][4]>> >>]])

\* ---- JSP.add_constraints, as DBCJSP.__init__ calls it ----
add_constraints ==
    /\ pc = "constructed"
    /\ machine_cap_pairs' = get_machine_cap_pairs(job_dict, time_vars)
    /\ precedence_pairs' = get_precedence_pairs(job_dict, time_vars)
    /\ csp' = [start_once |->
                   add_start_once_constraints(get_op_start_times(time_vars)),
               one_at_a_time |-> add_machine_cap_constraints(machine_cap_pairs'),
               enforce_precedence |-> add_precedence_constraints(precedence_pairs')]
    /\ pc' = "built"
    /\ UNCHANGED <<args, job_dict, max_time, remove_impossible_times, time_vars,
                   schedule, check_result>>
    /\ UNCHANGED oneHotVars

\* ---- csp.check(schedule), as test_simple_jsp calls it ----

\* every variable x_job_oN_tT that a start-once group names
Variables(tv) ==
    UNION {UNION {{<<job, n, t>> : t \in Range(tv[job][n])} : n \in DOMAIN tv[job]} :
           job \in DOMAIN tv}

Check(c, s) ==
    /\ \A n \in DOMAIN c.start_once :
          [k \in DOMAIN c.start_once[n].variables |-> s[c.start_once[n].variables[k]]]
              \in c.start_once[n].configurations
    /\ \A pr \in c.one_at_a_time : one_at_a_time(s[pr[1]], s[pr[2]])
    /\ \A n \in DOMAIN c.enforce_precedence :
          enforce_precedence(s[c.enforce_precedence[n][1]],
                             s[c.enforce_precedence[n][2]])

csp_check ==
    /\ pc = "built"
    /\ \E s \in [Variables(time_vars) -> {0, 1}] :
          /\ schedule' = s
          /\ check_result' = Check(csp, s)
    /\ pc' = "checked"
    /\ UNCHANGED <<args, job_dict, max_time, remove_impossible_times, time_vars,
                   machine_cap_pairs, precedence_pairs, csp>>
    /\ UNCHANGED oneHotVars

\* ---- the two constraint helpers called on their own (test_jsp.py) ----
call_get_one_hot_configs ==
    /\ pc = "idle"
    /\ \E n \in 0..MaxLength :
          /\ length' = n
          /\ configs' = get_one_hot_configs(n)
    /\ pc' = "configs"
    /\ UNCHANGED <<config, start_once_result>>
    /\ UNCHANGED jspVars

call_start_once ==
    /\ pc = "configs"
    /\ \E c \in [1..length -> {0, 1}] :
          /\ config' = c
          /\ start_once_result' = start_once(c)
    /\ pc' = "tested"
    /\ UNCHANGED <<length, configs>>
    /\ UNCHANGED jspVars

\* ---- specifications ----

\* construction of a DBCJSP from any bounded job spec
Next == JSP__init__ \/ add_constraints

Spec == Init /\ [][Next]_vars

\* construction from a job spec with durations >= 1, then csp.check
InitCheck ==
    /\ pc = "new"
    /\ args \in [job_dict : JobDicts(1..MaxDur, 0),
                 max_time : {<<h>> : h \in 0..MaxCheckHorizon},
                 remove_impossible_times : BOOLEAN]
    /\ InitFields

NextCheck == JSP__init__ \/ add_constraints \/ csp_check

SpecCheck == InitCheck /\ [][NextCheck]_vars

\* get_one_hot_configs(n), then start_once on a tuple of that length
InitOneHot ==
    /\ pc = "idle"
    /\ args = TestArgs
    /\ InitFields

NextOneHot == call_get_one_hot_configs \/ call_start_once

SpecOneHot == InitOneHot /\ [][NextOneHot]_vars

\* ==== properties ====

Constructed == pc \in {"constructed", "built", "checked"}
Built == pc \in {"built", "checked"}

\* sum of the durations of the operations before operation n (1-based) of a job
DurBefore(job, n) == Sum(Durations(SubSeq(job_dict[job], 1, n - 1)))

\* sum of the durations of operation n and all later operations of a job
DurFrom(job, n) == Sum(Durations(SubSeq(job_dict[job], n, Len(job_dict[job]))))

\* the (job, operation number) pairs of the job spec
AllOps == UNION {{<<job, n>> : n \in DOMAIN job_dict[job]} : job \in DOMAIN job_dict}

WindowOf(o) == Range(time_vars[o[1]][o[2]])
DurOf(o) == Dur(job_dict[o[1]][o[2]])
MachineOf(o) == Machine(job_dict[o[1]][o[2]])

\* a job spec that InvalidJobSpec is about: a negative duration or a job
\* without operations
InvalidJobSpec(jd) ==
    \E job \in DOMAIN jd :
        \/ jd[job] = <<>>
        \/ \E n \in DOMAIN jd[job] : Dur(jd[job][n]) < 0

\* the constructor was given a job spec with durations >= 0 and no empty job
ValidInput == ~InvalidJobSpec(args.job_dict)

\* C2: with slack elimination enabled, the window of operation n of every job
\* is exactly the contiguous, increasing list of start times B+1 .. horizon-(R-1),
\* B the durations before n and R the durations from n on.
C2_SlackWindow ==
    (Constructed /\ remove_impossible_times) =>
        /\ DOMAIN time_vars = DOMAIN job_dict
        /\ \A job \in DOMAIN job_dict :
              /\ Len(time_vars[job]) = Len(job_dict[job])
              /\ \A n \in DOMAIN job_dict[job] :
                    LET w == time_vars[job][n]
                        lo == DurBefore(job, n) + 1
                        hi == max_time - (DurFrom(job, n) - 1)
                    IN  /\ Range(w) = lo..hi
                        /\ \A k \in DOMAIN w : w[k] = lo + (k - 1)

\* C2 witness: the test's instance, whose first window is {1,2,3,4}
C2_Witness ==
    /\ Constructed
    /\ job_dict = TestJobs /\ max_time = 7 /\ remove_impossible_times
    /\ time_vars[1][1] = <<1, 2, 3, 4>>

\* C3 as stated: for either flag value every admitted start time of operation n
\* is at least 1 + the durations of the earlier operations of its job
\* (stated for valid job specs).
C3_AfterPredecessorsEitherFlag ==
    (Constructed /\ ValidInput) =>
        \A o \in AllOps : \A t \in WindowOf(o) : t >= 1 + DurBefore(o[1], o[2])

\* C3 amended: the lower bound 1 + B holds with slack elimination enabled;
\* with it disabled back_space stays 0 and every window is 1 .. max_time.
C3_AfterPredecessorsWhenEnabled ==
    Constructed =>
        \A o \in AllOps :
            /\ remove_impossible_times =>
                  \A t \in WindowOf(o) : t >= 1 + DurBefore(o[1], o[2])
            /\ ~remove_impossible_times => WindowOf(o) = 1..max_time

\* C3 witness: a later operation with a positive predecessor and a start time
C3_Witness ==
    /\ Constructed /\ remove_impossible_times
    /\ \E o \in AllOps :
          o[2] > 1 /\ DurBefore(o[1], o[2]) >= 1 /\ WindowOf(o) # {}

\* C4 as stated: construction never completes with an operation whose list
\* of start times is empty (stated for valid job specs and a given positive
\* horizon).
C4_NoEmptyWindow ==
    (Constructed /\ ValidInput /\ args.max_time # None /\ max_time >= 1) => \A o \in AllOps : time_vars[o[1]][o[2]] # <<>>

\* C5 as stated: on a job spec with a negative duration or an empty operation
\* list no windows and no constraints are ever produced.
C5_InvalidRejected ==
    InvalidJobSpec(args.job_dict) =>
        /\ pc = "new"
        /\ time_vars = <<>>
        /\ csp = EmptyCsp

\* C10 as stated: with all durations >= 0 every admitted start time t
\* satisfies 1 <= t <= max_time.
C10_WithinHorizon ==
    (Constructed /\ \A o \in AllOps : DurOf(o) >= 0) =>
        \A o \in AllOps : \A t \in WindowOf(o) : 1 <= t /\ t <= max_time

\* ---- machine capacity pairs ----

\* the variables of the operations on machine m
VarsOn(m) == {v \in Variables(time_vars) : MachineOf(<<v[1], v[2]>>) = m}

LexBefore(a, b) == a[1] < b[1] \/ (a[1] = b[1] /\ a[2] < b[2])

\* the set of pairs C6 describes for machine m
DescribedCapPairs(m) ==
    {pr \in VarsOn(m) \X VarsOn(m) :
        LET a == pr[1]
            b == pr[2]
        IN  /\ <<a[1], a[2]>> # <<b[1], b[2]>>
            /\ \/ (0 < b[3] - a[3] /\ b[3] - a[3] < DurOf(<<a[1], a[2]>>))
               \/ /\ a[3] = b[3]
                  /\ DurOf(<<a[1], a[2]>>) > 0
                  /\ DurOf(<<b[1], b[2]>>) > 0
                  /\ LexBefore(a, b)}

\* C6: for every machine the capacity pairs are exactly the overlap-rule and
\* equal-start-rule pairs of distinct operations on it; a zero-duration
\* operation is never first in an overlap pair nor in an equal-start pair,
\* and no pair relates operations on different machines.
C6_CapPairsExact ==
    Built =>
        /\ DOMAIN machine_cap_pairs = {MachineOf(o) : o \in AllOps}
        /\ \A m \in DOMAIN machine_cap_pairs :
              /\ machine_cap_pairs[m] = DescribedCapPairs(m)
              /\ \A pr \in machine_cap_pairs[m] :
                    /\ MachineOf(<<pr[1][1], pr[1][2]>>) = m
                    /\ MachineOf(<<pr[2][1], pr[2][2]>>) = m
                    /\ pr[1][3] < pr[2][3] => DurOf(<<pr[1][1], pr[1][2]>>) # 0
                    /\ pr[1][3] = pr[2][3] =>
                          /\ DurOf(<<pr[1][1], pr[1][2]>>) # 0
                          /\ DurOf(<<pr[2][1], pr[2][2]>>) # 0

\* C6 witness: a machine with an overlap pair, an equal-start pair and a
\* zero-duration operation
C6_Witness ==
    /\ Built
    /\ \E m \in DOMAIN machine_cap_pairs :
          /\ \E pr \in machine_cap_pairs[m] : pr[1][3] < pr[2][3]
          /\ \E pr \in machine_cap_pairs[m] : pr[1][3] = pr[2][3]
          /\ \E o \in AllOps : MachineOf(o) = m /\ DurOf(o) = 0 /\ WindowOf(o) # {}

\* ---- deduplication ----
Swap(pr) == <<pr[2], pr[1]>>

AllCapPairs == UNION {machine_cap_pairs[m] : m \in DOMAIN machine_cap_pairs}

\* the precedence tuples as pairs of variables, in emission order
PrecedenceVarPairs == add_precedence_constraints(precedence_pairs)

\* no unordered pair is emitted twice among the capacity pairs of all machines
NoDupCapacity ==
    \A m1 \in DOMAIN machine_cap_pairs : \A pr \in machine_cap_pairs[m1] :
        \A m2 \in DOMAIN machine_cap_pairs :
            /\ pr \in machine_cap_pairs[m2] => m1 = m2
            /\ Swap(pr) \in machine_cap_pairs[m2] => Swap(pr) = pr /\ m1 = m2

\* no unordered pair is emitted twice among the precedence pairs
NoDupPrecedence ==
    /\ Cardinality(Range(PrecedenceVarPairs)) = Len(PrecedenceVarPairs)
    /\ \A pr \in Range(PrecedenceVarPairs) :
          Swap(pr) \in Range(PrecedenceVarPairs) => Swap(pr) = pr

\* the unordered pairs emitted both as a capacity and as a precedence pair
CrossDuplicates ==
    {pr \in Range(PrecedenceVarPairs) : pr \in AllCapPairs \/ Swap(pr) \in AllCapPairs}

\* C7 as stated: over capacity and precedence pairs together every unordered
\* pair of variables is emitted at most once (stated for valid job specs).
C7_DedupWholeOutput ==
    (Built /\ ValidInput) => NoDupCapacity /\ NoDupPrecedence /\ CrossDuplicates = {}

\* C7 amended: each family is deduplicated on its own (capacity pairs over all
\* machines, precedence pairs over all jobs); a pair is emitted by both
\* families only for two adjacent operations of one job on the same machine.
C7_DedupPerFamily ==
    Built =>
        /\ NoDupCapacity
        /\ NoDupPrecedence
        /\ \A pr \in CrossDuplicates :
              /\ pr[1][1] = pr[2][1]
              /\ pr[2][2] = pr[1][2] + 1
              /\ MachineOf(<<pr[1][1], pr[1][2]>>) = MachineOf(<<pr[2][1], pr[2][2]>>)

\* C7 witness: two adjacent operations of a job on one machine, whose pair is
\* emitted by both families, next to capacity pairs of two machines
C7_Witness ==
    /\ Built
    /\ CrossDuplicates # {}
    /\ Cardinality({m \in DOMAIN machine_cap_pairs : machine_cap_pairs[m] # {}}) >= 2

\* ---- precedence pairs ----

\* the tuples C8 describes for a job
DescribedPrecedence(job) ==
    UNION {{<<n - 1, x[1], n, x[2]>> :
               x \in {y \in Range(time_vars[job][n]) \X Range(time_vars[job][n + 1]) :
                         y[1] + Dur(job_dict[job][n]) > y[2]}} :
           n \in 1..(Len(job_dict[job]) - 1)}

\* C8: the precedence list of a job holds (i, t, i+1, t') exactly for adjacent
\* operations with t + duration(i) > t', each once, nothing for non-adjacent
\* operations and nothing for a single-operation job.
C8_PrecedenceExact ==
    Built =>
        /\ DOMAIN precedence_pairs = DOMAIN job_dict
        /\ \A job \in DOMAIN job_dict :
              LET l == precedence_pairs[job]
              IN  /\ Range(l) = DescribedPrecedence(job)
                  /\ Cardinality(Range(l)) = Len(l)
                  /\ \A q \in Range(l) : q[3] = q[1] + 1
                  /\ Len(job_dict[job]) <= 1 => l = <<>>

\* C8 witness: a job with precedence tuples next to a single-operation job
C8_Witness ==
    /\ Built
    /\ \E job \in DOMAIN job_dict : precedence_pairs[job] # <<>>
    /\ \E job \in DOMAIN job_dict : Len(job_dict[job]) = 1

\* ---- one-hot configurations ----

\* C9: get_one_hot_configs(n) is n distinct 0/1 tuples of length n, and a 0/1
\* tuple of length n is among them exactly when start_once accepts it.
C9_OneHotIsStartOnce ==
    /\ pc \in {"configs", "tested"} =>
          /\ Len(configs) = length
          /\ Cardinality(Range(configs)) = length
          /\ \A c \in Range(configs) : c \in [1..length -> {0, 1}]
    /\ pc = "tested" => (config \in Range(configs) <=> start_once_result)

\* C9 witness: a tuple of length >= 2 that both forms accept
C9_Witness ==
    /\ pc = "tested" /\ length >= 2
    /\ start_once_result /\ config \in Range(configs)

\* ---- the generated constraints against schedules ----

\* the assignment satisfies every generated group and pair
SatisfiesGenerated(s) ==
    /\ \A o \in AllOps :
          start_once([k \in DOMAIN time_vars[o[1]][o[2]] |->
                         s[<<o[1], o[2], time_vars[o[1]][o[2]][k]>>]])
    /\ \A pr \in AllCapPairs : ~(s[pr[1]] = 1 /\ s[pr[2]] = 1)
    /\ \A pr \in Range(PrecedenceVarPairs) : ~(s[pr[1]] = 1 /\ s[pr[2]] = 1)

\* the start times an assignment sets for an operation
StartsOf(s, o) == {t \in WindowOf(o) : s[<<o[1], o[2], t>>] = 1}

\* the time slots an operation started at t occupies
Slots(o, t) == t..(t + DurOf(o) - 1)

\* (a) every operation has exactly one start time
StartsOnce(s) == \A o \in AllOps : Cardinality(StartsOf(s, o)) = 1

\* (b) within a job a later operation starts after an earlier one finishes
RespectsOrder(s) ==
    \A o1 \in AllOps : \A o2 \in AllOps :
        (o1[1] = o2[1] /\ o1[2] < o2[2]) =>
            \A t1 \in StartsOf(s, o1) : \A t2 \in StartsOf(s, o2) :
                t2 >= t1 + DurOf(o1)

\* (c) no two distinct operations of a machine share a time slot
NoMachineOverlap(s) ==
    \A o1 \in AllOps : \A o2 \in AllOps :
        (o1 # o2 /\ MachineOf(o1) = MachineOf(o2)) =>
            \A t1 \in StartsOf(s, o1) : \A t2 \in StartsOf(s, o2) :
                Slots(o1, t1) \cap Slots(o2, t2) = {}

\* C1: with durations >= 1 an assignment satisfies all generated constraints
\* exactly when it is a schedule: one start per operation, job order
\* respected, no overlap on a machine; csp.check decides the same.
C1_ConstraintsIffSchedule ==
    pc = "checked" =>
        /\ SatisfiesGenerated(schedule) <=>
              (StartsOnce(schedule) /\ RespectsOrder(schedule)
                  /\ NoMachineOverlap(schedule))
        /\ check_result <=> SatisfiesGenerated(schedule)

\* C1 witness: one start per operation and job order respected, but two
\* operations overlapping on a machine, and the check rejecting it
C1_Witness ==
    /\ pc = "checked"
    /\ StartsOnce(schedule) /\ RespectsOrder(schedule)
    /\ ~NoMachineOverlap(schedule)
    /\ ~check_result

====
